---- MODULE Spec2Model ----
(***************************************************************************)
(* Model of scripts/generate_dashboard.py: the CI status dashboard         *)
(* generator.  One run of main() is a sequential state machine:            *)
(*   credential check -> get_all_repos (one page per step)                 *)
(*   -> build_repo_data (one repository per step, then the sort)           *)
(*   -> count_statuses -> generate_html -> write index.html -> status.json *)
(* Every HTTP exchange is an input drawn from a bounded set of responses.  *)
(* Strings whose content the code inspects (response bodies, repository    *)
(* names) are sequences of code points.                                    *)
(***************************************************************************)
EXTENDS Integers, Sequences, FiniteSets, TLC

VARIABLES
    GH_TOKEN,        \* module global, line 13
    pc,              \* position of main()
    exit_code,       \* process exit status, NoExit while running
    page,            \* get_all_repos: local page
    repos,           \* get_all_repos: local repos / main: repos
    idx,             \* build_repo_data: position of the for loop (1-based)
    results,         \* build_repo_data: local results, in listing order
    data,            \* main: data (sorted StatusRecords)
    counts,          \* main: counts
    html,            \* main: html (the fields of the document the claims read)
    dir_created,     \* /tmp/dashboard exists
    html_file,       \* content of /tmp/dashboard/index.html, NoFile if unwritten
    json_file,       \* content of /tmp/dashboard/status.json, NoFile if unwritten
    apiCalls,        \* number of requests.get calls issued so far
    lastResp,        \* outcome of the latest requests.get
    pagesRequested,  \* page numbers asked of the listing endpoint, in order
    pagesReceived,   \* non-empty 200 pages the lister got, in order
    cl_run,          \* classifier harness: the raw run handed to get_status_info
    cl_out           \* classifier harness: its result, Pending before the call

vars == <<GH_TOKEN, pc, exit_code, page, repos, idx, results, data, counts, html,
          dir_created, html_file, json_file, apiCalls, lastResp,
          pagesRequested, pagesReceived, cl_run, cl_out>>

---------------------------------------------------------------------------
(* Bounds of the model *)

MaxPages == 2        \* non-empty listing pages the API may serve
MaxPageLen == 2      \* repositories per listing page (100 in the code)
MaxRepos == 2        \* repositories in the organization

---------------------------------------------------------------------------
(* Python values *)

\* None where an object (a run, a response, a file) is expected
None == [py_none |-> TRUE]
\* None where a string is expected (JSON null, dict.get of a missing key)
NullStr == "<None>"
\* sys.exit(n) / normal end: the exit status; NoExit while the process runs
NoExit == <<>>
Exit(n) == <<n>>
NoFile == [py_none |-> TRUE]
Pending == <<"pending">>

\* truthiness of a str-or-None value
Truthy(s) == s # NullStr /\ s # ""

\* a or b
PyOr(a, b) == IF Truthy(a) THEN a ELSE b

\* str.lower(), CPython 3.11 (Unicode 14.0.0): the code points c = lo, lo + step,
\* ..., hi whose lower case is the one code point c + delta, as <<lo, hi, step, delta>>
LowerRuns ==
    {
     <<65, 90, 1, 32>>, <<192, 214, 1, 32>>, <<216, 222, 1, 32>>, <<256, 302, 2, 1>>,
     <<306, 310, 2, 1>>, <<313, 327, 2, 1>>, <<330, 374, 2, 1>>, <<376, 376, 1, -121>>,
     <<377, 381, 2, 1>>, <<385, 385, 1, 210>>, <<386, 388, 2, 1>>, <<390, 390, 1, 206>>,
     <<391, 391, 1, 1>>, <<393, 394, 1, 205>>, <<395, 395, 1, 1>>, <<398, 398, 1, 79>>,
     <<399, 399, 1, 202>>, <<400, 400, 1, 203>>, <<401, 401, 1, 1>>, <<403, 403, 1, 205>>,
     <<404, 404, 1, 207>>, <<406, 406, 1, 211>>, <<407, 407, 1, 209>>, <<408, 408, 1, 1>>,
     <<412, 412, 1, 211>>, <<413, 413, 1, 213>>, <<415, 415, 1, 214>>, <<416, 420, 2, 1>>,
     <<422, 422, 1, 218>>, <<423, 423, 1, 1>>, <<425, 425, 1, 218>>, <<428, 428, 1, 1>>,
     <<430, 430, 1, 218>>, <<431, 431, 1, 1>>, <<433, 434, 1, 217>>, <<435, 437, 2, 1>>,
     <<439, 439, 1, 219>>, <<440, 440, 1, 1>>, <<444, 444, 1, 1>>, <<452, 452, 1, 2>>,
     <<453, 453, 1, 1>>, <<455, 455, 1, 2>>, <<456, 456, 1, 1>>, <<458, 458, 1, 2>>,
     <<459, 475, 2, 1>>, <<478, 494, 2, 1>>, <<497, 497, 1, 2>>, <<498, 500, 2, 1>>,
     <<502, 502, 1, -97>>, <<503, 503, 1, -56>>, <<504, 542, 2, 1>>, <<544, 544, 1, -130>>,
     <<546, 562, 2, 1>>, <<570, 570, 1, 10795>>, <<571, 571, 1, 1>>, <<573, 573, 1, -163>>,
     <<574, 574, 1, 10792>>, <<577, 577, 1, 1>>, <<579, 579, 1, -195>>, <<580, 580, 1, 69>>,
     <<581, 581, 1, 71>>, <<582, 590, 2, 1>>, <<880, 882, 2, 1>>, <<886, 886, 1, 1>>,
     <<895, 895, 1, 116>>, <<902, 902, 1, 38>>, <<904, 906, 1, 37>>, <<908, 908, 1, 64>>,
     <<910, 911, 1, 63>>, <<913, 929, 1, 32>>, <<931, 939, 1, 32>>, <<975, 975, 1, 8>>,
     <<984, 1006, 2, 1>>, <<1012, 1012, 1, -60>>, <<1015, 1015, 1, 1>>, <<1017, 1017, 1, -7>>,
     <<1018, 1018, 1, 1>>, <<1021, 1023, 1, -130>>, <<1024, 1039, 1, 80>>, <<1040, 1071, 1, 32>>,
     <<1120, 1152, 2, 1>>, <<1162, 1214, 2, 1>>, <<1216, 1216, 1, 15>>, <<1217, 1229, 2, 1>>,
     <<1232, 1326, 2, 1>>, <<1329, 1366, 1, 48>>, <<4256, 4293, 1, 7264>>, <<4295, 4295, 1, 7264>>,
     <<4301, 4301, 1, 7264>>, <<5024, 5103, 1, 38864>>, <<5104, 5109, 1, 8>>, <<7312, 7354, 1, -3008>>,
     <<7357, 7359, 1, -3008>>, <<7680, 7828, 2, 1>>, <<7838, 7838, 1, -7615>>, <<7840, 7934, 2, 1>>,
     <<7944, 7951, 1, -8>>, <<7960, 7965, 1, -8>>, <<7976, 7983, 1, -8>>, <<7992, 7999, 1, -8>>,
     <<8008, 8013, 1, -8>>, <<8025, 8031, 2, -8>>, <<8040, 8047, 1, -8>>, <<8072, 8079, 1, -8>>,
     <<8088, 8095, 1, -8>>, <<8104, 8111, 1, -8>>, <<8120, 8121, 1, -8>>, <<8122, 8123, 1, -74>>,
     <<8124, 8124, 1, -9>>, <<8136, 8139, 1, -86>>, <<8140, 8140, 1, -9>>, <<8152, 8153, 1, -8>>,
     <<8154, 8155, 1, -100>>, <<8168, 8169, 1, -8>>, <<8170, 8171, 1, -112>>, <<8172, 8172, 1, -7>>,
     <<8184, 8185, 1, -128>>, <<8186, 8187, 1, -126>>, <<8188, 8188, 1, -9>>, <<8486, 8486, 1, -7517>>,
     <<8490, 8490, 1, -8383>>, <<8491, 8491, 1, -8262>>, <<8498, 8498, 1, 28>>, <<8544, 8559, 1, 16>>,
     <<8579, 8579, 1, 1>>, <<9398, 9423, 1, 26>>, <<11264, 11311, 1, 48>>, <<11360, 11360, 1, 1>>,
     <<11362, 11362, 1, -10743>>, <<11363, 11363, 1, -3814>>, <<11364, 11364, 1, -10727>>, <<11367, 11371, 2, 1>>,
     <<11373, 11373, 1, -10780>>, <<11374, 11374, 1, -10749>>, <<11375, 11375, 1, -10783>>, <<11376, 11376, 1, -10782>>,
     <<11378, 11378, 1, 1>>, <<11381, 11381, 1, 1>>, <<11390, 11391, 1, -10815>>, <<11392, 11490, 2, 1>>,
     <<11499, 11501, 2, 1>>, <<11506, 11506, 1, 1>>, <<42560, 42604, 2, 1>>, <<42624, 42650, 2, 1>>,
     <<42786, 42798, 2, 1>>, <<42802, 42862, 2, 1>>, <<42873, 42875, 2, 1>>, <<42877, 42877, 1, -35332>>,
     <<42878, 42886, 2, 1>>, <<42891, 42891, 1, 1>>, <<42893, 42893, 1, -42280>>, <<42896, 42898, 2, 1>>,
     <<42902, 42920, 2, 1>>, <<42922, 42922, 1, -42308>>, <<42923, 42923, 1, -42319>>, <<42924, 42924, 1, -42315>>,
     <<42925, 42925, 1, -42305>>, <<42926, 42926, 1, -42308>>, <<42928, 42928, 1, -42258>>, <<42929, 42929, 1, -42282>>,
     <<42930, 42930, 1, -42261>>, <<42931, 42931, 1, 928>>, <<42932, 42946, 2, 1>>, <<42948, 42948, 1, -48>>,
     <<42949, 42949, 1, -42307>>, <<42950, 42950, 1, -35384>>, <<42951, 42953, 2, 1>>, <<42960, 42960, 1, 1>>,
     <<42966, 42968, 2, 1>>, <<42997, 42997, 1, 1>>, <<65313, 65338, 1, 32>>, <<66560, 66599, 1, 40>>,
     <<66736, 66771, 1, 40>>, <<66928, 66938, 1, 39>>, <<66940, 66954, 1, 39>>, <<66956, 66962, 1, 39>>,
     <<66964, 66965, 1, 39>>, <<68736, 68786, 1, 64>>, <<71840, 71871, 1, 32>>, <<93760, 93791, 1, 32>>,
     <<125184, 125217, 1, 34>>}

\* str.lower(), final-sigma rule: the case-ignorable code points, as <<lo, hi>>
CaseIgnorableRanges ==
    {
     <<39, 39>>, <<46, 46>>, <<58, 58>>, <<94, 94>>, <<96, 96>>, <<168, 168>>,
     <<173, 173>>, <<175, 175>>, <<180, 180>>, <<183, 184>>, <<688, 879>>, <<884, 885>>,
     <<890, 890>>, <<900, 901>>, <<903, 903>>, <<1155, 1161>>, <<1369, 1369>>, <<1375, 1375>>,
     <<1425, 1469>>, <<1471, 1471>>, <<1473, 1474>>, <<1476, 1477>>, <<1479, 1479>>, <<1524, 1524>>,
     <<1536, 1541>>, <<1552, 1562>>, <<1564, 1564>>, <<1600, 1600>>, <<1611, 1631>>, <<1648, 1648>>,
     <<1750, 1757>>, <<1759, 1768>>, <<1770, 1773>>, <<1807, 1807>>, <<1809, 1809>>, <<1840, 1866>>,
     <<1958, 1968>>, <<2027, 2037>>, <<2042, 2042>>, <<2045, 2045>>, <<2070, 2093>>, <<2137, 2139>>,
     <<2184, 2184>>, <<2192, 2193>>, <<2200, 2207>>, <<2249, 2306>>, <<2362, 2362>>, <<2364, 2364>>,
     <<2369, 2376>>, <<2381, 2381>>, <<2385, 2391>>, <<2402, 2403>>, <<2417, 2417>>, <<2433, 2433>>,
     <<2492, 2492>>, <<2497, 2500>>, <<2509, 2509>>, <<2530, 2531>>, <<2558, 2558>>, <<2561, 2562>>,
     <<2620, 2620>>, <<2625, 2626>>, <<2631, 2632>>, <<2635, 2637>>, <<2641, 2641>>, <<2672, 2673>>,
     <<2677, 2677>>, <<2689, 2690>>, <<2748, 2748>>, <<2753, 2757>>, <<2759, 2760>>, <<2765, 2765>>,
     <<2786, 2787>>, <<2810, 2815>>, <<2817, 2817>>, <<2876, 2876>>, <<2879, 2879>>, <<2881, 2884>>,
     <<2893, 2893>>, <<2901, 2902>>, <<2914, 2915>>, <<2946, 2946>>, <<3008, 3008>>, <<3021, 3021>>,
     <<3072, 3072>>, <<3076, 3076>>, <<3132, 3132>>, <<3134, 3136>>, <<3142, 3144>>, <<3146, 3149>>,
     <<3157, 3158>>, <<3170, 3171>>, <<3201, 3201>>, <<3260, 3260>>, <<3263, 3263>>, <<3270, 3270>>,
     <<3276, 3277>>, <<3298, 3299>>, <<3328, 3329>>, <<3387, 3388>>, <<3393, 3396>>, <<3405, 3405>>,
     <<3426, 3427>>, <<3457, 3457>>, <<3530, 3530>>, <<3538, 3540>>, <<3542, 3542>>, <<3633, 3633>>,
     <<3636, 3642>>, <<3654, 3662>>, <<3761, 3761>>, <<3764, 3772>>, <<3782, 3782>>, <<3784, 3789>>,
     <<3864, 3865>>, <<3893, 3893>>, <<3895, 3895>>, <<3897, 3897>>, <<3953, 3966>>, <<3968, 3972>>,
     <<3974, 3975>>, <<3981, 3991>>, <<3993, 4028>>, <<4038, 4038>>, <<4141, 4144>>, <<4146, 4151>>,
     <<4153, 4154>>, <<4157, 4158>>, <<4184, 4185>>, <<4190, 4192>>, <<4209, 4212>>, <<4226, 4226>>,
     <<4229, 4230>>, <<4237, 4237>>, <<4253, 4253>>, <<4348, 4348>>, <<4957, 4959>>, <<5906, 5908>>,
     <<5938, 5939>>, <<5970, 5971>>, <<6002, 6003>>, <<6068, 6069>>, <<6071, 6077>>, <<6086, 6086>>,
     <<6089, 6099>>, <<6103, 6103>>, <<6109, 6109>>, <<6155, 6159>>, <<6211, 6211>>, <<6277, 6278>>,
     <<6313, 6313>>, <<6432, 6434>>, <<6439, 6440>>, <<6450, 6450>>, <<6457, 6459>>, <<6679, 6680>>,
     <<6683, 6683>>, <<6742, 6742>>, <<6744, 6750>>, <<6752, 6752>>, <<6754, 6754>>, <<6757, 6764>>,
     <<6771, 6780>>, <<6783, 6783>>, <<6823, 6823>>, <<6832, 6862>>, <<6912, 6915>>, <<6964, 6964>>,
     <<6966, 6970>>, <<6972, 6972>>, <<6978, 6978>>, <<7019, 7027>>, <<7040, 7041>>, <<7074, 7077>>,
     <<7080, 7081>>, <<7083, 7085>>, <<7142, 7142>>, <<7144, 7145>>, <<7149, 7149>>, <<7151, 7153>>,
     <<7212, 7219>>, <<7222, 7223>>, <<7288, 7293>>, <<7376, 7378>>, <<7380, 7392>>, <<7394, 7400>>,
     <<7405, 7405>>, <<7412, 7412>>, <<7416, 7417>>, <<7468, 7530>>, <<7544, 7544>>, <<7579, 7679>>,
     <<8125, 8125>>, <<8127, 8129>>, <<8141, 8143>>, <<8157, 8159>>, <<8173, 8175>>, <<8189, 8190>>,
     <<8203, 8207>>, <<8216, 8217>>, <<8228, 8228>>, <<8231, 8231>>, <<8234, 8238>>, <<8288, 8292>>,
     <<8294, 8303>>, <<8305, 8305>>, <<8319, 8319>>, <<8336, 8348>>, <<8400, 8432>>, <<11388, 11389>>,
     <<11503, 11505>>, <<11631, 11631>>, <<11647, 11647>>, <<11744, 11775>>, <<11823, 11823>>, <<12293, 12293>>,
     <<12330, 12333>>, <<12337, 12341>>, <<12347, 12347>>, <<12441, 12446>>, <<12540, 12542>>, <<40981, 40981>>,
     <<42232, 42237>>, <<42508, 42508>>, <<42607, 42610>>, <<42612, 42621>>, <<42623, 42623>>, <<42652, 42655>>,
     <<42736, 42737>>, <<42752, 42785>>, <<42864, 42864>>, <<42888, 42890>>, <<42994, 42996>>, <<43000, 43001>>,
     <<43010, 43010>>, <<43014, 43014>>, <<43019, 43019>>, <<43045, 43046>>, <<43052, 43052>>, <<43204, 43205>>,
     <<43232, 43249>>, <<43263, 43263>>, <<43302, 43309>>, <<43335, 43345>>, <<43392, 43394>>, <<43443, 43443>>,
     <<43446, 43449>>, <<43452, 43453>>, <<43471, 43471>>, <<43493, 43494>>, <<43561, 43566>>, <<43569, 43570>>,
     <<43573, 43574>>, <<43587, 43587>>, <<43596, 43596>>, <<43632, 43632>>, <<43644, 43644>>, <<43696, 43696>>,
     <<43698, 43700>>, <<43703, 43704>>, <<43710, 43711>>, <<43713, 43713>>, <<43741, 43741>>, <<43756, 43757>>,
     <<43763, 43764>>, <<43766, 43766>>, <<43867, 43871>>, <<43881, 43883>>, <<44005, 44005>>, <<44008, 44008>>,
     <<44013, 44013>>, <<64286, 64286>>, <<64434, 64450>>, <<65024, 65039>>, <<65043, 65043>>, <<65056, 65071>>,
     <<65106, 65106>>, <<65109, 65109>>, <<65279, 65279>>, <<65287, 65287>>, <<65294, 65294>>, <<65306, 65306>>,
     <<65342, 65342>>, <<65344, 65344>>, <<65392, 65392>>, <<65438, 65439>>, <<65507, 65507>>, <<65529, 65531>>,
     <<66045, 66045>>, <<66272, 66272>>, <<66422, 66426>>, <<67456, 67461>>, <<67463, 67504>>, <<67506, 67514>>,
     <<68097, 68099>>, <<68101, 68102>>, <<68108, 68111>>, <<68152, 68154>>, <<68159, 68159>>, <<68325, 68326>>,
     <<68900, 68903>>, <<69291, 69292>>, <<69446, 69456>>, <<69506, 69509>>, <<69633, 69633>>, <<69688, 69702>>,
     <<69744, 69744>>, <<69747, 69748>>, <<69759, 69761>>, <<69811, 69814>>, <<69817, 69818>>, <<69821, 69821>>,
     <<69826, 69826>>, <<69837, 69837>>, <<69888, 69890>>, <<69927, 69931>>, <<69933, 69940>>, <<70003, 70003>>,
     <<70016, 70017>>, <<70070, 70078>>, <<70089, 70092>>, <<70095, 70095>>, <<70191, 70193>>, <<70196, 70196>>,
     <<70198, 70199>>, <<70206, 70206>>, <<70367, 70367>>, <<70371, 70378>>, <<70400, 70401>>, <<70459, 70460>>,
     <<70464, 70464>>, <<70502, 70508>>, <<70512, 70516>>, <<70712, 70719>>, <<70722, 70724>>, <<70726, 70726>>,
     <<70750, 70750>>, <<70835, 70840>>, <<70842, 70842>>, <<70847, 70848>>, <<70850, 70851>>, <<71090, 71093>>,
     <<71100, 71101>>, <<71103, 71104>>, <<71132, 71133>>, <<71219, 71226>>, <<71229, 71229>>, <<71231, 71232>>,
     <<71339, 71339>>, <<71341, 71341>>, <<71344, 71349>>, <<71351, 71351>>, <<71453, 71455>>, <<71458, 71461>>,
     <<71463, 71467>>, <<71727, 71735>>, <<71737, 71738>>, <<71995, 71996>>, <<71998, 71998>>, <<72003, 72003>>,
     <<72148, 72151>>, <<72154, 72155>>, <<72160, 72160>>, <<72193, 72202>>, <<72243, 72248>>, <<72251, 72254>>,
     <<72263, 72263>>, <<72273, 72278>>, <<72281, 72283>>, <<72330, 72342>>, <<72344, 72345>>, <<72752, 72758>>,
     <<72760, 72765>>, <<72767, 72767>>, <<72850, 72871>>, <<72874, 72880>>, <<72882, 72883>>, <<72885, 72886>>,
     <<73009, 73014>>, <<73018, 73018>>, <<73020, 73021>>, <<73023, 73029>>, <<73031, 73031>>, <<73104, 73105>>,
     <<73109, 73109>>, <<73111, 73111>>, <<73459, 73460>>, <<78896, 78904>>, <<92912, 92916>>, <<92976, 92982>>,
     <<92992, 92995>>, <<94031, 94031>>, <<94095, 94111>>, <<94176, 94177>>, <<94179, 94180>>, <<110576, 110579>>,
     <<110581, 110587>>, <<110589, 110590>>, <<113821, 113822>>, <<113824, 113827>>, <<118528, 118573>>, <<118576, 118598>>,
     <<119143, 119145>>, <<119155, 119170>>, <<119173, 119179>>, <<119210, 119213>>, <<119362, 119364>>, <<121344, 121398>>,
     <<121403, 121452>>, <<121461, 121461>>, <<121476, 121476>>, <<121499, 121503>>, <<121505, 121519>>, <<122880, 122886>>,
     <<122888, 122904>>, <<122907, 122913>>, <<122915, 122916>>, <<122918, 122922>>, <<123184, 123197>>, <<123566, 123566>>,
     <<123628, 123631>>, <<125136, 125142>>, <<125252, 125259>>, <<127995, 127999>>, <<917505, 917505>>, <<917536, 917631>>,
     <<917760, 917999>>}

\* str.lower(), final-sigma rule: the cased code points that are not
\* case-ignorable, as <<lo, hi>>
CasedRanges ==
    {
     <<65, 90>>, <<97, 122>>, <<170, 170>>, <<181, 181>>, <<186, 186>>, <<192, 214>>,
     <<216, 246>>, <<248, 442>>, <<444, 447>>, <<452, 659>>, <<661, 687>>, <<880, 883>>,
     <<886, 887>>, <<891, 893>>, <<895, 895>>, <<902, 902>>, <<904, 906>>, <<908, 908>>,
     <<910, 929>>, <<931, 1013>>, <<1015, 1153>>, <<1162, 1327>>, <<1329, 1366>>, <<1376, 1416>>,
     <<4256, 4293>>, <<4295, 4295>>, <<4301, 4301>>, <<4304, 4346>>, <<4349, 4351>>, <<5024, 5109>>,
     <<5112, 5117>>, <<7296, 7304>>, <<7312, 7354>>, <<7357, 7359>>, <<7424, 7467>>, <<7531, 7543>>,
     <<7545, 7578>>, <<7680, 7957>>, <<7960, 7965>>, <<7968, 8005>>, <<8008, 8013>>, <<8016, 8023>>,
     <<8025, 8025>>, <<8027, 8027>>, <<8029, 8029>>, <<8031, 8061>>, <<8064, 8116>>, <<8118, 8124>>,
     <<8126, 8126>>, <<8130, 8132>>, <<8134, 8140>>, <<8144, 8147>>, <<8150, 8155>>, <<8160, 8172>>,
     <<8178, 8180>>, <<8182, 8188>>, <<8450, 8450>>, <<8455, 8455>>, <<8458, 8467>>, <<8469, 8469>>,
     <<8473, 8477>>, <<8484, 8484>>, <<8486, 8486>>, <<8488, 8488>>, <<8490, 8493>>, <<8495, 8500>>,
     <<8505, 8505>>, <<8508, 8511>>, <<8517, 8521>>, <<8526, 8526>>, <<8544, 8575>>, <<8579, 8580>>,
     <<9398, 9449>>, <<11264, 11387>>, <<11390, 11492>>, <<11499, 11502>>, <<11506, 11507>>, <<11520, 11557>>,
     <<11559, 11559>>, <<11565, 11565>>, <<42560, 42605>>, <<42624, 42651>>, <<42786, 42863>>, <<42865, 42887>>,
     <<42891, 42894>>, <<42896, 42954>>, <<42960, 42961>>, <<42963, 42963>>, <<42965, 42969>>, <<42997, 42998>>,
     <<43002, 43002>>, <<43824, 43866>>, <<43872, 43880>>, <<43888, 43967>>, <<64256, 64262>>, <<64275, 64279>>,
     <<65313, 65338>>, <<65345, 65370>>, <<66560, 66639>>, <<66736, 66771>>, <<66776, 66811>>, <<66928, 66938>>,
     <<66940, 66954>>, <<66956, 66962>>, <<66964, 66965>>, <<66967, 66977>>, <<66979, 66993>>, <<66995, 67001>>,
     <<67003, 67004>>, <<68736, 68786>>, <<68800, 68850>>, <<71840, 71903>>, <<93760, 93823>>, <<119808, 119892>>,
     <<119894, 119964>>, <<119966, 119967>>, <<119970, 119970>>, <<119973, 119974>>, <<119977, 119980>>, <<119982, 119993>>,
     <<119995, 119995>>, <<119997, 120003>>, <<120005, 120069>>, <<120071, 120074>>, <<120077, 120084>>, <<120086, 120092>>,
     <<120094, 120121>>, <<120123, 120126>>, <<120128, 120132>>, <<120134, 120134>>, <<120138, 120144>>, <<120146, 120485>>,
     <<120488, 120512>>, <<120514, 120538>>, <<120540, 120570>>, <<120572, 120596>>, <<120598, 120628>>, <<120630, 120654>>,
     <<120656, 120686>>, <<120688, 120712>>, <<120714, 120744>>, <<120746, 120770>>, <<120772, 120779>>, <<122624, 122633>>,
     <<122635, 122654>>, <<125184, 125251>>, <<127280, 127305>>, <<127312, 127337>>, <<127344, 127369>>}

InRanges(c, R) == \E r \in R : r[1] <= c /\ c <= r[2]

\* the run of LowerRuns that c belongs to, if any
LowerRunsOf(c) ==
    {r \in LowerRuns : r[1] <= c /\ c <= r[2] /\ (c - r[1]) % r[3] = 0}

\* chr(c).lower(): the code points of the lower case of one character.
\* U+0130 is the one character whose lower case is two code points.
LowerChar(c) ==
    IF c < 128 THEN (IF c >= 65 /\ c <= 90 THEN <<c + 32>> ELSE <<c>>)
    ELSE IF c = 304 THEN <<105, 775>>
    ELSE IF LowerRunsOf(c) = {} THEN <<c>>
    ELSE <<c + (CHOOSE r \in LowerRunsOf(c) : TRUE)[4]>>

\* str.lower(), final-sigma rule: the capital sigma at text[i] follows a cased
\* character and is followed by none, case-ignorable characters skipped
FinalSigma(text, i) ==
    /\ \E j \in 1..(i - 1) :
          /\ InRanges(text[j], CasedRanges)
          /\ \A k \in (j + 1)..(i - 1) : InRanges(text[k], CaseIgnorableRanges)
    /\ ~\E j \in (i + 1)..Len(text) :
          /\ InRanges(text[j], CasedRanges)
          /\ \A k \in (i + 1)..(j - 1) : InRanges(text[k], CaseIgnorableRanges)

\* text[i..].lower() within text
RECURSIVE LowerFrom(_, _)
LowerFrom(text, i) ==
    IF i > Len(text) THEN <<>>
    ELSE (IF text[i] = 931 /\ FinalSigma(text, i) THEN <<962>> ELSE LowerChar(text[i]))
         \o LowerFrom(text, i + 1)

\* text.lower()
Lower(text) == LowerFrom(text, 1)

\* needle in hay
Contains(needle, hay) ==
    \E i \in 1..(Len(hay) - Len(needle) + 1) :
        SubSeq(hay, i, i + Len(needle) - 1) = needle

\* a < b on str: code point by code point, a proper prefix is smaller
RECURSIVE StrLess(_, _)
StrLess(a, b) ==
    IF b = <<>> THEN FALSE
    ELSE IF a = <<>> THEN TRUE
    ELSE IF Head(a) # Head(b) THEN Head(a) < Head(b)
    ELSE StrLess(Tail(a), Tail(b))

---------------------------------------------------------------------------
(* Inputs: environment, responses, repositories, runs *)

\* os.environ.get(...) of either variable: unset, empty or set
EnvValues == {NullStr, "", "t"}

\* "rate limit"
RateLimitNeedle == <<114, 97, 116, 101, 32, 108, 105, 109, 105, 116>>

TextEmpty == <<>>
\* "API Rate Limit"
TextRateMixed == <<65, 80, 73, 32, 82, 97, 116, 101, 32, 76, 105, 109, 105, 116>>
\* "rate-limit": no match
TextRateDash == <<114, 97, 116, 101, 45, 108, 105, 109, 105, 116>>
\* "RATE L" U+0130 "MIT": lower() gives "rate li" U+0307 "mit", no match
TextRateDotted == <<82, 65, 84, 69, 32, 76, 304, 77, 73, 84>>
\* "RATE LIMIT " U+0391 U+03A3: lower() gives "rate limit " U+03B1 U+03C2
TextRateGreek == <<82, 65, 84, 69, 32, 76, 73, 77, 73, 84, 32, 913, 931>>
Texts == {TextEmpty, RateLimitNeedle, TextRateMixed, TextRateDash,
          TextRateDotted, TextRateGreek}

\* repository names "B", "a", "ab"
Names == {<<66>>, <<97>>, <<97, 98>>}
Repos == [name : Names]

\* raw workflow runs of the main machine
Runs ==
    {[status |-> "in_progress", conclusion |-> "failure", html_url |-> "u"],
     [status |-> "queued", conclusion |-> NullStr, html_url |-> "u"],
     [status |-> "completed", conclusion |-> "success", html_url |-> "u"],
     [status |-> "completed", conclusion |-> "failure", html_url |-> "u"],
     [status |-> "completed", conclusion |-> "failure", html_url |-> ""],
     [status |-> "completed", conclusion |-> "cancelled", html_url |-> "u"],
     [status |-> "completed", conclusion |-> "timed_out", html_url |-> "u"],
     [status |-> "", conclusion |-> "", html_url |-> "u"]}

\* raw workflow runs of the classifier harness: every status with every conclusion
AllRuns ==
    [status : {"in_progress", "queued", "waiting", "completed", "requested", "", NullStr},
     conclusion : {"success", "failure", "cancelled", "timed_out", "skipped", "", NullStr},
     html_url : {"u", ""}]

\* sequences over S of length lo..hi
SeqsOf(S, lo, hi) == UNION {[1..n -> S] : n \in lo..hi}

\* requests.get raised (timeout, connection error): there is no response
Raised == [exc |-> TRUE, status_code |-> 0, text |-> TextEmpty, json |-> <<>>]
Response(code, text, json) ==
    [exc |-> FALSE, status_code |-> code, text |-> text, json |-> json]

ErrorResponses == {Response(c, t, <<>>) : c \in {403, 500}, t \in Texts}

\* what the listing endpoint may answer when `room` more repositories exist
ListOutcomes(room) ==
    {Raised} \cup ErrorResponses
    \cup {Response(200, TextEmpty, p) :
            p \in SeqsOf(Repos, 0, IF room < MaxPageLen THEN room ELSE MaxPageLen)}

\* what the runs endpoint may answer (per_page = 1)
RunOutcomes ==
    {Raised} \cup ErrorResponses
    \cup {Response(200, TextEmpty, <<>>), Response(200, RateLimitNeedle, <<>>)}
    \cup {Response(200, TextEmpty, <<r>>) : r \in Runs}

---------------------------------------------------------------------------
(* Pure functions of the program *)

\* mutant of IsRateLimited: the body is matched without lower()
IsRateLimitedCaseSensitive(resp) ==
    resp.status_code = 403 /\ Contains(RateLimitNeedle, resp.text)

\* api_get, line 22: the response is a rate-limit response
IsRateLimited(resp) ==
    resp.status_code = 403 /\ Contains(RateLimitNeedle, Lower(resp.text))

\* get_latest_run, lines 46-48, on the response api_get returned
get_latest_run(resp) ==
    IF resp.status_code # 200 \/ resp.json = <<>>
    THEN None
    ELSE resp.json[1]

RunningStatuses == {"in_progress", "queued", "waiting"}

\* mutant of get_status_info: the conclusion is dispatched on before the status
get_status_info_conclusion_first(run) ==
    IF run = None THEN <<"no_ci", "Sin CI", "warning">>
    ELSE IF run.conclusion = "success" THEN <<"success", "Passing", "check">>
    ELSE IF run.conclusion = "failure" THEN <<"failure", "Failing", "cross">>
    ELSE IF run.conclusion = "cancelled" THEN <<"cancelled", "Cancelled", "stop">>
    ELSE IF run.status \in RunningStatuses THEN <<"running", "Running", "cycle">>
    ELSE <<"unknown", PyOr(run.conclusion, PyOr(run.status, "Unknown")), "question">>

\* mutant of get_status_info: an unrecognised conclusion becomes the key itself
get_status_info_raw_key(run) ==
    IF run = None THEN <<"no_ci", "Sin CI", "warning">>
    ELSE IF run.status \in RunningStatuses THEN <<"running", "Running", "cycle">>
    ELSE IF run.conclusion = "success" THEN <<"success", "Passing", "check">>
    ELSE IF run.conclusion = "failure" THEN <<"failure", "Failing", "cross">>
    ELSE IF run.conclusion = "cancelled" THEN <<"cancelled", "Cancelled", "stop">>
    ELSE LET raw == PyOr(run.conclusion, PyOr(run.status, "Unknown"))
         IN  <<raw, raw, "question">>

\* get_status_info, lines 61-74: <<status_key, status_label, status_icon>>
get_status_info(run) ==
    IF run = None THEN <<"no_ci", "Sin CI", "warning">>
    ELSE IF run.status \in RunningStatuses THEN <<"running", "Running", "cycle">>
    ELSE IF run.conclusion = "success" THEN <<"success", "Passing", "check">>
    ELSE IF run.conclusion = "failure" THEN <<"failure", "Failing", "cross">>
    ELSE IF run.conclusion = "cancelled" THEN <<"cancelled", "Cancelled", "stop">>
    ELSE <<"unknown", PyOr(run.conclusion, PyOr(run.status, "Unknown")), "question">>

\* build_repo_data, lines 85-107: the entry of one repository.
\* run_url is NullStr when the key is absent (r.get("run_url") is None).
MakeEntry(repo, run) ==
    LET info == get_status_info(run) IN
    [name |-> repo.name,
     status_key |-> info[1],
     status_label |-> info[2],
     status_icon |-> info[3],
     run_url |-> IF run # None THEN run.html_url ELSE NullStr]

\* build_repo_data, line 111: order.get(key, 99)
order(key) ==
    CASE key = "failure" -> 0
      [] key = "running" -> 1
      [] key = "cancelled" -> 2
      [] key = "no_ci" -> 3
      [] key = "unknown" -> 4
      [] key = "success" -> 5
      [] OTHER -> 99

\* mutant of KeyLess: the sort key is the rank alone
KeyLessRankOnly(a, b) == order(a.status_key) < order(b.status_key)

\* line 112: key(a) < key(b) on the tuples (rank, name)
KeyLess(a, b) ==
    \/ order(a.status_key) < order(b.status_key)
    \/ /\ order(a.status_key) = order(b.status_key)
       /\ StrLess(a.name, b.name)

\* list.sort is stable: r goes after every element whose key is not greater
RECURSIVE InsertByKey(_, _)
InsertByKey(r, s) ==
    IF s = <<>> THEN <<r>>
    ELSE IF KeyLess(r, Head(s)) THEN <<r>> \o s
    ELSE <<Head(s)>> \o InsertByKey(r, Tail(s))

\* mutant of SortResults: equal records are merged (a set of records is sorted)
RECURSIVE SortResultsMerged(_)
SortResultsMerged(rs) ==
    IF rs = <<>> THEN <<>>
    ELSE LET rest == SortResultsMerged(SubSeq(rs, 1, Len(rs) - 1))
             last == rs[Len(rs)]
         IN  IF \E i \in 1..Len(rest) : rest[i] = last
             THEN rest
             ELSE InsertByKey(last, rest)

\* line 112: results.sort(key=...)
RECURSIVE SortResults(_)
SortResults(rs) ==
    IF rs = <<>> THEN <<>>
    ELSE InsertByKey(rs[Len(rs)], SortResults(SubSeq(rs, 1, Len(rs) - 1)))

\* dict.get(k, 0)
CountsGet(c, k) == IF k \in DOMAIN c THEN c[k] ELSE 0

\* count_statuses, lines 116-121
RECURSIVE count_statuses(_)
count_statuses(d) ==
    IF d = <<>> THEN <<>>
    ELSE LET c == count_statuses(SubSeq(d, 1, Len(d) - 1))
             k == d[Len(d)].status_key
         IN  IF k \in DOMAIN c THEN [c EXCEPT ![k] = @ + 1] ELSE c @@ (k :> 1)

\* mutant of HasCopyBtn: the run URL is not looked at
HasCopyBtnAnyUrl(r) == r.status_key \in {"failure", "cancelled"}

\* generate_html, line 151: the row carries a copy button
HasCopyBtn(r) == r.status_key \in {"failure", "cancelled"} /\ Truthy(r.run_url)

\* mutant of OtherCount: the no_ci bucket is not subtracted
OtherCountKeepsNoCi(total, failing, passing, running, no_ci) ==
    total - failing - passing - running

\* generate_html, line 130
OtherCount(total, failing, passing, running, no_ci) ==
    total - failing - passing - running - no_ci

\* generate_html, lines 124-391: the computed parts of the document
generate_html(d, c) ==
    LET total == Len(d)
        failing == CountsGet(c, "failure")
        passing == CountsGet(c, "success")
        running == CountsGet(c, "running")
        no_ci == CountsGet(c, "no_ci")
        other == OtherCount(total, failing, passing, running, no_ci)
    IN  [total |-> total, failing |-> failing, passing |-> passing,
         running |-> running, no_ci |-> no_ci, other |-> other,
         other_shown |-> (other > 0),
         all_green |-> (failing = 0),
         rows |-> [i \in 1..Len(d) |->
                     [status_class |-> d[i].status_key,
                      name |-> d[i].name,
                      run_link |-> Truthy(d[i].run_url),
                      copy_btn |-> HasCopyBtn(d[i])]]]

\* mutant of NextPage: the page number is not advanced
NextPageStuck(p) == p

\* get_all_repos, line 40
NextPage(p) == p + 1

---------------------------------------------------------------------------
(* The run of main() *)

Init ==
    /\ GH_TOKEN \in {PyOr(a, b) : a \in EnvValues, b \in EnvValues}
    /\ pc = "start"
    /\ exit_code = NoExit
    /\ page = 1
    /\ repos = <<>>
    /\ idx = 1
    /\ results = <<>>
    /\ data = <<>>
    /\ counts = <<>>
    /\ html = None
    /\ dir_created = FALSE
    /\ html_file = NoFile
    /\ json_file = NoFile
    /\ apiCalls = 0
    /\ lastResp = None
    /\ pagesRequested = <<>>
    /\ pagesReceived = <<>>
    /\ cl_run = None
    /\ cl_out = Pending

\* main, lines 395-399
CheckToken ==
    /\ pc = "start"
    /\ IF ~Truthy(GH_TOKEN)
       THEN pc' = "exited" /\ exit_code' = Exit(1)
       ELSE pc' = "list" /\ exit_code' = exit_code
    /\ UNCHANGED <<GH_TOKEN, page, repos, idx, results, data, counts, html,
                   dir_created, html_file, json_file, apiCalls, lastResp,
                   pagesRequested, pagesReceived, cl_run, cl_out>>

\* get_all_repos, lines 31-41: one iteration of the paging loop
ListPage ==
    /\ pc = "list"
    /\ \E resp \in ListOutcomes(IF page > MaxPages THEN 0 ELSE MaxRepos - Len(repos)) :
        /\ apiCalls' = apiCalls + 1
        /\ lastResp' = resp
        /\ pagesRequested' = Append(pagesRequested, page)
        /\ IF resp.exc
           THEN \* uncaught exception: traceback, exit status 1
                /\ pc' = "crashed" /\ exit_code' = Exit(1)
                /\ UNCHANGED <<page, repos, pagesReceived>>
           ELSE IF IsRateLimited(resp)
           THEN /\ pc' = "exited" /\ exit_code' = Exit(1)
                /\ UNCHANGED <<page, repos, pagesReceived>>
           ELSE IF resp.status_code # 200 \/ resp.json = <<>>
           THEN /\ pc' = "build"
                /\ UNCHANGED <<exit_code, page, repos, pagesReceived>>
           ELSE /\ repos' = repos \o resp.json
                /\ page' = NextPage(page)
                /\ pagesReceived' = Append(pagesReceived, resp.json)
                /\ UNCHANGED <<pc, exit_code>>
    /\ UNCHANGED <<GH_TOKEN, idx, results, data, counts, html, dir_created,
                   html_file, json_file, cl_run, cl_out>>

\* build_repo_data, lines 79-108: one iteration of the for loop
CheckRepo ==
    /\ pc = "build"
    /\ idx <= Len(repos)
    /\ \E resp \in RunOutcomes :
        /\ apiCalls' = apiCalls + 1
        /\ lastResp' = resp
        /\ IF resp.exc
           THEN /\ pc' = "crashed" /\ exit_code' = Exit(1)
                /\ UNCHANGED <<idx, results>>
           ELSE IF IsRateLimited(resp)
           THEN /\ pc' = "exited" /\ exit_code' = Exit(1)
                /\ UNCHANGED <<idx, results>>
           ELSE /\ results' = Append(results, MakeEntry(repos[idx], get_latest_run(resp)))
                /\ idx' = idx + 1
                /\ UNCHANGED <<pc, exit_code>>
    /\ UNCHANGED <<GH_TOKEN, page, repos, data, counts, html, dir_created,
                   html_file, json_file, pagesRequested, pagesReceived,
                   cl_run, cl_out>>

\* build_repo_data, lines 110-113, and main, line 405
SortAndCount ==
    /\ pc = "build"
    /\ idx > Len(repos)
    /\ data' = SortResults(results)
    /\ counts' = count_statuses(data')
    /\ pc' = "render"
    /\ UNCHANGED <<GH_TOKEN, exit_code, page, repos, idx, results, html,
                   dir_created, html_file, json_file, apiCalls, lastResp,
                   pagesRequested, pagesReceived, cl_run, cl_out>>

\* main, line 410
Render ==
    /\ pc = "render"
    /\ html' = generate_html(data, counts)
    /\ pc' = "write_html"
    /\ UNCHANGED <<GH_TOKEN, exit_code, page, repos, idx, results, data, counts,
                   dir_created, html_file, json_file, apiCalls, lastResp,
                   pagesRequested, pagesReceived, cl_run, cl_out>>

\* main, lines 412-414
WriteHtml ==
    /\ pc = "write_html"
    /\ dir_created' = TRUE
    /\ html_file' = html
    /\ pc' = "write_json"
    /\ UNCHANGED <<GH_TOKEN, exit_code, page, repos, idx, results, data, counts,
                   html, json_file, apiCalls, lastResp, pagesRequested,
                   pagesReceived, cl_run, cl_out>>

\* main, lines 416-422, and the normal end of the process
WriteJson ==
    /\ pc = "write_json"
    /\ json_file' = [total |-> Len(data), counts |-> counts, repos |-> data]
    /\ pc' = "done"
    /\ exit_code' = Exit(0)
    /\ UNCHANGED <<GH_TOKEN, page, repos, idx, results, data, counts, html,
                   dir_created, html_file, apiCalls, lastResp, pagesRequested,
                   pagesReceived, cl_run, cl_out>>

Next ==
    \/ CheckToken
    \/ ListPage
    \/ CheckRepo
    \/ SortAndCount
    \/ Render
    \/ WriteHtml
    \/ WriteJson

Spec == Init /\ [][Next]_vars

---------------------------------------------------------------------------
(* get_status_info on its own: every raw run, then the call *)

InitClassify ==
    /\ GH_TOKEN = "t"
    /\ pc = "classify"
    /\ exit_code = NoExit
    /\ page = 1
    /\ repos = <<>>
    /\ idx = 1
    /\ results = <<>>
    /\ data = <<>>
    /\ counts = <<>>
    /\ html = None
    /\ dir_created = FALSE
    /\ html_file = NoFile
    /\ json_file = NoFile
    /\ apiCalls = 0
    /\ lastResp = None
    /\ pagesRequested = <<>>
    /\ pagesReceived = <<>>
    /\ cl_run \in AllRuns \cup {None}
    /\ cl_out = Pending

Classify ==
    /\ pc = "classify"
    /\ cl_out = Pending
    /\ cl_out' = get_status_info(cl_run)
    /\ UNCHANGED <<GH_TOKEN, pc, exit_code, page, repos, idx, results, data,
                   counts, html, dir_created, html_file, json_file, apiCalls,
                   lastResp, pagesRequested, pagesReceived, cl_run>>

NextClassify == Classify

SpecClassify == InitClassify /\ [][NextClassify]_vars

---------------------------------------------------------------------------
(* Vocabulary of the properties, stated independently of the code's operators *)

StatusKeys == {"failure", "running", "cancelled", "no_ci", "unknown", "success"}

\* the documented status-priority rank
PriorityRank(key) ==
    CASE key = "failure" -> 0
      [] key = "running" -> 1
      [] key = "cancelled" -> 2
      [] key = "no_ci" -> 3
      [] key = "unknown" -> 4
      [] key = "success" -> 5

\* the response is a 403 whose body says "rate limit" in some letter case
RateLimitResponse(resp) ==
    /\ ~resp.exc
    /\ resp.status_code = 403
    /\ resp.text \in {RateLimitNeedle, TextRateMixed, TextRateGreek}

\* the latest request went to the listing endpoint / to a runs endpoint
LastWasList == apiCalls > 0 /\ apiCalls = Len(pagesRequested)
LastWasRunFetch == apiCalls > Len(pagesRequested)

\* main has reached, or passed, the given point
Returned == {"build", "render", "write_html", "write_json", "done"}
Built == {"render", "write_html", "write_json", "done"}
Rendered == {"write_html", "write_json", "done"}
Terminated == {"done", "exited", "crashed"}

\* number of positions of s that satisfy Test
CountIn(s, Test(_)) == Cardinality({i \in 1..Len(s) : Test(s[i])})

\* s and t hold the same elements the same number of times
SameBag(s, t) ==
    /\ Len(s) = Len(t)
    /\ \A i \in 1..Len(s) :
        LET x == s[i] IN
        CountIn(s, LAMBDA y : y = x) = CountIn(t, LAMBDA y : y = x)

RECURSIVE Flatten(_)
Flatten(ps) == IF ps = <<>> THEN <<>> ELSE Head(ps) \o Flatten(Tail(ps))

RECURSIVE SumOver(_, _)
SumOver(f, S) ==
    IF S = {} THEN 0
    ELSE LET k == CHOOSE x \in S : TRUE IN f[k] + SumOver(f, S \ {k})

---------------------------------------------------------------------------
(* C1 *)

\* the run-fetch failed in one of the ways named by the claim
FetchFailed(resp) ==
    \/ resp.exc
    \/ /\ ~resp.exc
       /\ ~RateLimitResponse(resp)
       /\ (resp.status_code # 200 \/ resp.json = <<>>)

\* C1: whenever a repository's run-fetch fails other than by a rate-limit
\* response (non-200, empty workflow_runs, timeout or connection error), the
\* report is not aborted: the process neither crashes nor exits, and that
\* repository has its StatusRecord with status_key "no_ci".
C1_FetchFailureDegrades ==
    (LastWasRunFetch /\ FetchFailed(lastResp)) =>
        /\ pc \notin {"crashed", "exited"}
        /\ Len(results) = apiCalls - Len(pagesRequested)
        /\ results[Len(results)].name = repos[Len(results)].name
        /\ results[Len(results)].status_key = "no_ci"

---------------------------------------------------------------------------
(* C2 *)

\* C2: once any API call (listing page or run-fetch) is answered by a 403
\* whose body contains "rate limit" in any letter case, the process has
\* exited with code 1 at that very call, neither artifact exists, and from
\* the exited state no API call and no write follows.
C2_RateLimitFailFast ==
    /\ []((apiCalls > 0 /\ RateLimitResponse(lastResp)) =>
            /\ pc = "exited"
            /\ exit_code = Exit(1)
            /\ ~dir_created
            /\ html_file = NoFile
            /\ json_file = NoFile)
    /\ [][pc = "exited" =>
            /\ apiCalls' = apiCalls
            /\ html_file' = html_file
            /\ json_file' = json_file]_vars

\* rate-limited on a run-fetch, in mixed case, after a repository was processed
C2_Witness ==
    /\ pc = "exited"
    /\ LastWasRunFetch
    /\ Len(results) >= 1
    /\ lastResp.status_code = 403
    /\ lastResp.text = TextRateMixed

---------------------------------------------------------------------------
(* C3 *)

\* C3: once build_repo_data has returned, data holds exactly one record per
\* listed repository (same length, same names the same number of times),
\* and the JSON artifact's "total" is the number of repositories.
C3_OneRecordPerRepo ==
    pc \in Built =>
        /\ Len(data) = Len(repos)
        /\ SameBag([i \in 1..Len(data) |-> data[i].name],
                   [i \in 1..Len(repos) |-> repos[i].name])
        /\ (json_file # NoFile => json_file.total = Len(repos))

\* two repositories, one with a run and one whose fetch gave none, JSON written
C3_Witness ==
    /\ pc = "done"
    /\ Len(repos) = 2
    /\ \E i \in 1..Len(data) : data[i].status_key = "no_ci"
    /\ \E i \in 1..Len(data) : data[i].status_key = "failure"
    /\ json_file.total = 2

---------------------------------------------------------------------------
(* C4 *)

\* C4: the sequence build_repo_data returns is sorted by (priority rank,
\* name) on every adjacent pair and is a permutation of the records built
\* in listing order.
C4_SortedPermutation ==
    pc \in Built =>
        /\ \A i \in 1..(Len(data) - 1) :
            \/ PriorityRank(data[i].status_key) < PriorityRank(data[i + 1].status_key)
            \/ /\ PriorityRank(data[i].status_key) = PriorityRank(data[i + 1].status_key)
               /\ ~StrLess(data[i + 1].name, data[i].name)
        /\ SameBag(data, results)

\* the sort moved records: equal ranks listed in descending name order
C4_Witness ==
    /\ pc \in Built
    /\ Len(data) = 2
    /\ data # results
    /\ data[1].status_key = data[2].status_key
    /\ data[1].name = <<97>>
    /\ data[2].name = <<97, 98>>

---------------------------------------------------------------------------
(* C5 *)

\* C5: a run whose status is in_progress, queued or waiting classifies as
\* ("running", "Running", cycle icon) whatever its conclusion; a conclusion
\* category is returned only for a run whose status is none of the three.
C5_RunningPrecedence ==
    (cl_out # Pending /\ cl_run # None) =>
        /\ cl_run.status \in {"in_progress", "queued", "waiting"}
              => cl_out = <<"running", "Running", "cycle">>
        /\ cl_out[1] \in {"success", "failure", "cancelled"}
              => /\ cl_run.status \notin {"in_progress", "queued", "waiting"}
                 /\ cl_out[1] = cl_run.conclusion

\* the stale case: in_progress with conclusion failure came out running
C5_Witness ==
    /\ cl_out = <<"running", "Running", "cycle">>
    /\ cl_run # None
    /\ cl_run.status = "in_progress"
    /\ cl_run.conclusion = "failure"

---------------------------------------------------------------------------
(* C6 *)

\* C6: every StatusRecord, unsorted or sorted, has a status_key in the
\* closed set, so the sort's fallback rank 99 is never used.
C6_ClosedStatusKeys ==
    /\ \A i \in 1..Len(results) :
        results[i].status_key \in StatusKeys /\ order(results[i].status_key) # 99
    /\ \A i \in 1..Len(data) :
        data[i].status_key \in StatusKeys /\ order(data[i].status_key) # 99

\* a conclusion outside the named ones and an absent run were both classified
C6_Witness ==
    /\ pc \in Built
    /\ \E i \in 1..Len(data) :
        data[i].status_key = "unknown" /\ data[i].status_label = "timed_out"
    /\ \E i \in 1..Len(data) :
        data[i].status_key = "unknown" /\ data[i].status_label = "Unknown"

---------------------------------------------------------------------------
(* C7 *)

\* C7: without a non-empty GH_TOKEN or GITHUB_TOKEN the process ends with
\* exit code 1 before any API request and before the output directory or an
\* artifact exists; every other run that ends without a rate-limit response
\* ends with exit code 0.
C7_ExitCodes ==
    /\ (~Truthy(GH_TOKEN) /\ pc # "start") =>
        /\ pc = "exited"
        /\ exit_code = Exit(1)
        /\ apiCalls = 0
        /\ ~dir_created
        /\ html_file = NoFile
        /\ json_file = NoFile
    /\ (/\ Truthy(GH_TOKEN)
        /\ pc \in Terminated
        /\ ~(apiCalls > 0 /\ RateLimitResponse(lastResp)))
       => exit_code = Exit(0)

---------------------------------------------------------------------------
(* C8 *)

\* C8: the per-key counts add up to the number of records, and the summary
\* strip's residual "other" is exactly the number of cancelled or unknown
\* records, never negative, shown if and only if it is not zero.
C8_CountsAddUp ==
    pc \in Rendered =>
        /\ SumOver(counts, DOMAIN counts) = Len(data)
        /\ html.total = Len(data)
        /\ html.other =
             CountIn(data, LAMBDA r : r.status_key \in {"cancelled", "unknown"})
        /\ html.other >= 0
        /\ html.other_shown <=> (html.other # 0)

\* a cancelled and an unknown record next to each other: other = 2, shown
C8_Witness ==
    /\ pc = "done"
    /\ html.other = 2
    /\ html.other_shown
    /\ \E i \in 1..Len(data) : data[i].status_key = "cancelled"
    /\ \E i \in 1..Len(data) : data[i].status_key = "unknown"

---------------------------------------------------------------------------
(* C9 *)

\* C9: a row of the document has the copy-to-clipboard control if and only
\* if its record's status_key is failure or cancelled and the record has a
\* non-empty run URL.
C9_CopyButtonIff ==
    pc \in Rendered =>
        /\ Len(html.rows) = Len(data)
        /\ \A i \in 1..Len(data) :
            html.rows[i].copy_btn <=>
                /\ data[i].status_key \in {"failure", "cancelled"}
                /\ data[i].run_url \notin {"", NullStr}

\* a failing record with a run URL has the control, one without has none
C9_Witness ==
    /\ pc \in Rendered
    /\ \E i \in 1..Len(data) :
        data[i].status_key = "failure" /\ html.rows[i].copy_btn
    /\ \E i \in 1..Len(data) :
        data[i].status_key = "failure" /\ ~html.rows[i].copy_btn

---------------------------------------------------------------------------
(* C10 *)

\* pages are asked for as 1, 2, 3, ..., one request per page; the list is the
\* concatenation of the pages received; one request ends the paging
PagingInOrder ==
    /\ \A i \in 1..Len(pagesRequested) : pagesRequested[i] = i
    /\ repos = Flatten(pagesReceived)
    /\ pc = "list" =>
        /\ page = Len(pagesRequested) + 1
        /\ Len(pagesReceived) = Len(pagesRequested)
    /\ (pc # "list" /\ apiCalls > 0) =>
        Len(pagesRequested) = Len(pagesReceived) + 1

\* C10 as stated: get_all_repos asks for pages 1, 2, 3, ... in order, and
\* at the first page that is empty or has a non-200 status (any non-200
\* status) it stops and returns the concatenation of the pages before it.
C10_StopsAtFirstBadPage ==
    /\ PagingInOrder
    /\ (/\ LastWasList
        /\ ~lastResp.exc
        /\ (lastResp.status_code # 200 \/ lastResp.json = <<>>))
       => pc \in Returned

\* C10 amended: as C10, for a stopping page that is empty or has a non-200
\* status other than a rate-limit response (403 with "rate limit" in the
\* body), on which the process exits and get_all_repos returns nothing.
C10_StopsAtFirstBadPageUnlessRateLimited ==
    /\ PagingInOrder
    /\ (/\ LastWasList
        /\ ~lastResp.exc
        /\ ~RateLimitResponse(lastResp)
        /\ (lastResp.status_code # 200 \/ lastResp.json = <<>>))
       => pc \in Returned
    /\ (LastWasList /\ RateLimitResponse(lastResp)) => pc = "exited"

\* two pages received, the third request answered 500: the two pages are kept
C10_Witness ==
    /\ pc = "build"
    /\ LastWasList
    /\ Len(pagesReceived) = 2
    /\ lastResp.status_code = 500
    /\ Len(repos) = 2

====
